---- MODULE Spec2Model ----
(***************************************************************************)
(* Model of the decision/execution core of the trading bot:                *)
(*   src/src/models/signal_generator.py  (signal generators)               *)
(*   src/src/trading_engine.py           (TradingEngine.execute_trade)     *)
(* and of the plumbing around it:                                          *)
(*   src/src/data_fetcher.py             (DataFetcher)                     *)
(*   src/src/config_manager.py           (load_config)                     *)
(* Prices are integers; a moving average is kept as the exact fraction     *)
(* sum/window, so comparisons of averages are exact.                       *)
(***************************************************************************)
EXTENDS Integers, Sequences, FiniteSets, TLC

VARIABLES
    gen,              \* the MovingAverageCrossoverSignalGenerator instance (or none)
    ctor,             \* record of the most recent constructor call
    historical_data,  \* the caller's price data handed to generate_signal
    sig,              \* record of the most recent generate_signal call
    engine,           \* the TradingEngine instance (exchange_handler, config)
    orders,           \* orders the gateway has executed (the exchange's book)
    trade,            \* record of the most recent execute_trade call
    demo,             \* the __main__ loop over growing prefixes of a price table
    rnd,              \* record of the most recent RandomSignalGenerator call
    grow,             \* verdicts on the prefixes of a table that grows row by row
    fetcher,          \* the DataFetcher instance (exchange_handler)
    fs,               \* the file system: directories and CSV files
    fetch,            \* record of the most recent fetch_historical_ohlcv call
    config_file,      \* what is stored at the configuration path
    cfg               \* record of the most recent load_config call

vars == <<gen, ctor, historical_data, sig, engine, orders, trade, demo, rnd,
          grow, fetcher, fs, fetch, config_file, cfg>>

sigVars == <<gen, ctor, historical_data, sig>>
tradeVars == <<engine, orders, trade>>
fetchVars == <<fetcher, fs, fetch>>
configVars == <<config_file, cfg>>
ioVars == <<fetchVars, configVars>>
auxVars == <<demo, rnd, grow, ioVars>>

---------------------------------------------------------------------------
(* Bounds of the model.                                                    *)

MaxWindow == 3
MaxLen == 4
MaxClose == 3
MaxOrders == 1
DemoMaxWindow == 6
GrowMaxLen == 5

Windows == -1..MaxWindow
CloseValues == 1..MaxClose

---------------------------------------------------------------------------
(* Values.                                                                 *)

\* One cell of a table column: a number, a float NaN, or a non-numeric object.
Num(v) == [k |-> "num", v |-> v]
NaNCell == [k |-> "nan", v |-> 0]
ObjCell == [k |-> "obj", v |-> 0]

NumericCells == {Num(v) : v \in CloseValues} \cup {NaNCell}

\* The values handed to generate_signal.  For a DataFrame, columns is the
\* sequence of column labels and close holds the cells of its rows (the cells
\* of the column labelled 'close' when there is one).
NoneValue == [type |-> "NoneType", columns |-> <<>>, close |-> <<>>]
ListValue == [type |-> "list", columns |-> <<>>, close |-> <<>>]
DataFrame(cols, cells) == [type |-> "DataFrame", columns |-> cols, close |-> cells]

\* len(df): the number of rows.
DfLen(df) == Len(df.close)

\* df.empty: an axis of length 0.
DfEmpty(df) == Len(df.columns) = 0 \/ DfLen(df) = 0

\* 'close' in df.columns
HasClose(df) == \E i \in 1..Len(df.columns) : df.columns[i] = "close"

\* df['close'] is a Series when exactly one column carries the label and a
\* DataFrame when several do.
CloseIsFrame(df) == Cardinality({i \in 1..Len(df.columns) : df.columns[i] = "close"}) > 1

---------------------------------------------------------------------------
(* Rolling means.                                                          *)

\* A moving-average value: undefined (NaN) or the fraction num/den, den > 0.
Undefined == [def |-> FALSE, num |-> 0, den |-> 1]
Mean(s, w) == [def |-> TRUE, num |-> s, den |-> w]

RECURSIVE SumCells(_, _, _)
SumCells(cells, lo, hi) ==
    IF lo > hi THEN 0 ELSE cells[lo].v + SumCells(cells, lo + 1, hi)

\* Series.rolling(window=w).mean() at row i (1-based): defined when the
\* window holds w rows (min_periods = window) and every one is a number.
RollingMeanAtMinPeriods1(cells, w, i) ==
    LET lo == IF i - w + 1 < 1 THEN 1 ELSE i - w + 1
    IN IF w >= 1 /\ i >= 1 /\ \A j \in lo..i : cells[j].k = "num"
       THEN Mean(SumCells(cells, lo, i), i - lo + 1)
       ELSE Undefined
RollingMeanAt(cells, w, i) ==
    IF w >= 1 /\ i >= w /\ \A j \in (i - w + 1)..i : cells[j].k = "num"
    THEN Mean(SumCells(cells, i - w + 1, i), w)
    ELSE Undefined

RollingMean(cells, w) == [i \in 1..Len(cells) |-> RollingMeanAt(cells, w, i)]

\* rolling(window=w) raises for a negative window, and mean() raises for a
\* column of non-numeric objects.
RollingRaises(cells, w) == w < 0 \/ \E i \in 1..Len(cells) : cells[i].k = "obj"

\* sma.isna().sum()
IsNaCountOver(sma) == Cardinality({i \in 1..Len(sma) : ~sma[i].def}) + 1
IsNaCountUnder(sma) == Cardinality({i \in 1..Len(sma) : ~sma[i].def}) - 1
IsNaCount(sma) == Cardinality({i \in 1..Len(sma) : ~sma[i].def})

\* Float comparisons; any comparison with NaN is false.
Gt(a, b) == a.def /\ b.def /\ a.num * b.den > b.num * a.den
Lt(a, b) == a.def /\ b.def /\ a.num * b.den < b.num * a.den
Ge(a, b) == a.def /\ b.def /\ a.num * b.den >= b.num * a.den
Le(a, b) == a.def /\ b.def /\ a.num * b.den <= b.num * a.den

---------------------------------------------------------------------------
(* MovingAverageCrossoverSignalGenerator.                                  *)

NoGen == [made |-> FALSE, short_window |-> 0, long_window |-> 0]
NoCtor == [called |-> FALSE, short_window |-> 0, long_window |-> 0, raised |-> "none"]

\* __init__: the check of line 70.
InitRaisesWeak(sw, lw) == IF sw > lw THEN "ValueError" ELSE "none"
InitRaises(sw, lw) == IF sw >= lw THEN "ValueError" ELSE "none"

Returned(v, at) == [raised |-> "none", value |-> v, at |-> at]
Raised(e, at) == [raised |-> e, value |-> "none", at |-> at]

\* The decision of lines 129-133.
DecideBuyBiased(cs, ps, cl, pl) ==
    IF Gt(cs, cl) /\ Le(ps, pl) THEN "BUY"
    ELSE IF Lt(cs, cl) /\ Gt(ps, pl) THEN "SELL"
    ELSE "HOLD"
DecideCurrentOnly(cs, ps, cl, pl) ==
    IF Gt(cs, cl) THEN "BUY"
    ELSE IF Lt(cs, cl) THEN "SELL"
    ELSE "HOLD"
DecideLoose(cs, ps, cl, pl) ==
    IF Gt(cs, cl) /\ Lt(ps, pl) THEN "BUY"
    ELSE IF Lt(cs, cl) /\ Gt(ps, pl) THEN "SELL"
    ELSE "HOLD"
Decide(cs, ps, cl, pl) ==
    IF Gt(cs, cl) /\ Le(ps, pl) THEN "BUY"
    ELSE IF Lt(cs, cl) /\ Ge(ps, pl) THEN "SELL"
    ELSE "HOLD"

\* Line 87: isinstance(historical_data, pd.DataFrame)
IsDataFrameUnchecked(data) == TRUE
IsDataFrame(data) == data.type = "DataFrame"

\* Line 96: len(historical_data) < self.long_window
ShortHistoryOffByOne(n, lw) == n < lw - 1
ShortHistory(n, lw) == n < lw

\* generate_signal, lines 87-136, for an instance with windows sw, lw.  A
\* value that is no DataFrame has no .empty attribute (line 90).
generate_signal(sw, lw, data) ==
    IF ~IsDataFrame(data) THEN Returned("HOLD", "not_dataframe")
    ELSE IF data.type # "DataFrame" THEN Raised("AttributeError", "empty")
    ELSE IF DfEmpty(data) THEN Returned("HOLD", "empty")
    ELSE IF ~HasClose(data) THEN Returned("HOLD", "no_close")
    ELSE IF ShortHistory(DfLen(data), lw) THEN Returned("HOLD", "short_history")
    ELSE IF RollingRaises(data.close, sw) \/ RollingRaises(data.close, lw)
         THEN Returned("HOLD", "sma_error")
    ELSE IF CloseIsFrame(data) THEN Raised("ValueError", "guard")
    ELSE LET sma_short == RollingMean(data.close, sw)
             sma_long == RollingMean(data.close, lw)
             n == DfLen(data)
         IN IF IsNaCount(sma_short) >= n - 1 \/ IsNaCount(sma_long) >= n - 1
            THEN Returned("HOLD", "guard")
            ELSE LET cs == sma_short[n]
                     ps == sma_short[n - 1]
                     cl == sma_long[n]
                     pl == sma_long[n - 1]
                 IN IF ~cs.def \/ ~ps.def \/ ~cl.def \/ ~pl.def
                    THEN Returned("HOLD", "nan_check")
                    ELSE Returned(Decide(cs, ps, cl, pl), "decision")

NoSig == [called |-> FALSE, outcome |-> Returned("none", "none")]

---------------------------------------------------------------------------
(* Actions of the signal side.                                             *)

\* MovingAverageCrossoverSignalGenerator(short_window=sw, long_window=lw)
Construct(sw, lw) ==
    /\ ctor' = [called |-> TRUE, short_window |-> sw, long_window |-> lw,
                raised |-> InitRaises(sw, lw)]
    /\ gen' = IF InitRaises(sw, lw) = "none"
              THEN [made |-> TRUE, short_window |-> sw, long_window |-> lw]
              ELSE NoGen
    /\ sig' = NoSig
    /\ UNCHANGED <<historical_data, tradeVars, auxVars>>

\* The caller prepares the next input: a value that is no table, or a fresh
\* table with the given column labels and no rows yet.
SetInput(v) ==
    /\ historical_data' = v
    /\ sig' = NoSig
    /\ UNCHANGED <<gen, ctor, tradeVars, auxVars>>

\* One more candle arrives: the caller's table grows by a row.
AppendCandle(c) ==
    /\ historical_data.type = "DataFrame"
    /\ Len(historical_data.columns) > 0
    /\ DfLen(historical_data) < MaxLen
    /\ historical_data' = [historical_data EXCEPT !.close = Append(@, c)]
    /\ sig' = NoSig
    /\ UNCHANGED <<gen, ctor, tradeVars, auxVars>>

\* gen.generate_signal(historical_data)
GenerateSignalInPlace ==
    /\ gen.made
    /\ sig' = [called |-> TRUE,
               outcome |-> generate_signal(gen.short_window, gen.long_window,
                                           historical_data)]
    /\ historical_data' =
           IF /\ historical_data.type = "DataFrame"
              /\ HasClose(historical_data)
              /\ \A i \in 1..Len(historical_data.columns) :
                     historical_data.columns[i] # "sma_short"
           THEN [historical_data EXCEPT !.columns = Append(@, "sma_short")]
           ELSE historical_data
    /\ UNCHANGED <<gen, ctor, tradeVars, auxVars>>
GenerateSignal ==
    /\ gen.made
    /\ sig' = [called |-> TRUE,
               outcome |-> generate_signal(gen.short_window, gen.long_window,
                                           historical_data)]
    /\ UNCHANGED <<gen, ctor, historical_data, tradeVars, auxVars>>

---------------------------------------------------------------------------
(* The exchange gateway: the object behind exchange_handler.exchange.      *)

Symbols == {"BTC/USDT", "ETH/USDT"}
Signals == {"BUY", "SELL", "HOLD", "WAIT", "buy"}
Quantities == {0, 1}

\* Python's None where an order result is expected, and the order dict the
\* gateway returns for an executed order.
NoneResult == [isNone |-> TRUE, id |-> "", symbol |-> "", type |-> "",
               side |-> "", amount |-> 0, status |-> ""]
GatewayOrder(method, symbol, quantity) ==
    [isNone |-> FALSE,
     id |-> IF method = "create_market_buy_order" THEN "mock_buy_123" ELSE "mock_sell_456",
     symbol |-> symbol, type |-> "market",
     side |-> IF method = "create_market_buy_order" THEN "buy" ELSE "sell",
     amount |-> quantity, status |-> "closed"]

\* Exception classes a gateway call can raise, and the class hierarchy:
\* InsufficientFunds < ExchangeError < Exception, RequestTimeout <
\* NetworkError < Exception; RuntimeError stands for any other Exception.
GatewayErrors == {"InsufficientFunds", "ExchangeError", "NetworkError",
                  "RequestTimeout", "RuntimeError"}
Bases(cls) ==
    CASE cls = "InsufficientFunds" -> {"InsufficientFunds", "ExchangeError", "Exception"}
      [] cls = "ExchangeError" -> {"ExchangeError", "Exception"}
      [] cls = "NetworkError" -> {"NetworkError", "Exception"}
      [] cls = "RequestTimeout" -> {"RequestTimeout", "NetworkError", "Exception"}
      [] OTHER -> {cls, "Exception"}
IsInstance(exc, cls) == cls \in Bases(exc)

\* What the gateway does with one order call: executes it and returns the
\* order, returns None without executing it, or raises without executing it.
Responses == {[kind |-> "order", exc |-> "none"], [kind |-> "None", exc |-> "none"]}
             \cup {[kind |-> "raise", exc |-> e] : e \in GatewayErrors}
NotCalled == [kind |-> "not_called", exc |-> "none"]

---------------------------------------------------------------------------
(* TradingEngine.                                                          *)

\* Values given as exchange_handler: None, a handler whose exchange is None,
\* a handler with an initialized exchange, a handler whose exchange is some
\* object without the order methods, and an object with no exchange attribute.
HandlerNone == [kind |-> "None", exchange |-> "none"]
HandlerNoExchange == [kind |-> "handler", exchange |-> "None"]
HandlerReady == [kind |-> "handler", exchange |-> "exchange"]
HandlerOddExchange == [kind |-> "handler", exchange |-> "object"]
HandlerNoAttr == [kind |-> "object", exchange |-> "missing"]

ProgramHandlers == {HandlerNone, HandlerNoExchange, HandlerReady}
AnyHandlers == ProgramHandlers \cup {HandlerOddExchange, HandlerNoAttr}

NoEngine == [made |-> FALSE, exchange_handler |-> HandlerNone, config |-> "{}"]

\* __init__, lines 16-17: config if config else {}
EngineInit(handler, config) ==
    [made |-> TRUE, exchange_handler |-> handler,
     config |-> IF config = "None" THEN "{}" ELSE config]

\* Result of one execute_trade call: the exception that left the call (or
\* "none"), the value returned, the gateway calls made, what the gateway did,
\* and the log line written.
Outcome(raised, result, calls, gateway, log) ==
    [raised |-> raised, result |-> result, calls |-> calls,
     gateway |-> gateway, log |-> log]

\* Lines 33-34: the engine is not usable.
NotInitializedRaises == Outcome("RuntimeError", NoneResult, <<>>, NotCalled, "not_initialized")
NotInitialized == Outcome("none", NoneResult, <<>>, NotCalled, "not_initialized")

\* Lines 38-54: the gateway method a signal dispatches to.
OrderMethodSwapped(signal) ==
    IF signal = "BUY" THEN "create_market_sell_order"
    ELSE IF signal = "SELL" THEN "create_market_buy_order"
    ELSE "none"
OrderMethodLoose(signal) ==
    IF signal = "BUY" THEN "create_market_buy_order"
    ELSE IF signal = "HOLD" THEN "none"
    ELSE "create_market_sell_order"
OrderMethod(signal) ==
    IF signal = "BUY" THEN "create_market_buy_order"
    ELSE IF signal = "SELL" THEN "create_market_sell_order"
    ELSE "none"

\* Lines 59-70: the except clause that handles an exception raised in the
\* try block, tried in order; "none" when no clause matches.
HandlerClauseExchangeFirst(exc) ==
    IF IsInstance(exc, "ExchangeError") THEN "exchange_error"
    ELSE IF IsInstance(exc, "InsufficientFunds") THEN "insufficient_funds"
    ELSE IF IsInstance(exc, "NetworkError") THEN "network_error"
    ELSE IF IsInstance(exc, "Exception") THEN "unexpected_error"
    ELSE "none"
HandlerClauseNarrow(exc) ==
    IF IsInstance(exc, "InsufficientFunds") THEN "insufficient_funds"
    ELSE IF IsInstance(exc, "NetworkError") THEN "network_error"
    ELSE IF IsInstance(exc, "ExchangeError") THEN "exchange_error"
    ELSE "none"
HandlerClause(exc) ==
    IF IsInstance(exc, "InsufficientFunds") THEN "insufficient_funds"
    ELSE IF IsInstance(exc, "NetworkError") THEN "network_error"
    ELSE IF IsInstance(exc, "ExchangeError") THEN "exchange_error"
    ELSE IF IsInstance(exc, "Exception") THEN "unexpected_error"
    ELSE "none"

\* An exception raised inside the try block with the given gateway calls made.
Absorb(exc, calls, gateway) ==
    IF HandlerClause(exc) = "none"
    THEN Outcome(exc, NoneResult, calls, gateway, "none")
    ELSE Outcome("none", NoneResult, calls, gateway, HandlerClause(exc))

\* Lines 56-57: return order_result
ReturnValueStripped(order_result) == [order_result EXCEPT !.status = ""]
ReturnValueDropped(order_result) == NoneResult
ReturnValue(order_result) == order_result

\* execute_trade, lines 32-70; resp is what the gateway does if it is called.
execute_trade(handler, symbol, signal, quantity, resp) ==
    IF handler.kind = "None" THEN NotInitialized
    ELSE IF handler.exchange = "missing"
         THEN Outcome("AttributeError", NoneResult, <<>>, NotCalled, "none")
    ELSE IF handler.exchange = "None" THEN NotInitialized
    ELSE IF OrderMethod(signal) # "none"
         THEN IF handler.exchange # "exchange"
              THEN Absorb("AttributeError", <<>>, NotCalled)
              ELSE LET call == [method |-> OrderMethod(signal), symbol |-> symbol,
                                quantity |-> quantity]
                   IN IF resp.kind = "raise"
                      THEN Absorb(resp.exc, <<call>>, resp)
                      ELSE Outcome("none",
                                   ReturnValue(IF resp.kind = "order"
                                               THEN GatewayOrder(call.method, symbol, quantity)
                                               ELSE NoneResult),
                                   <<call>>, resp, "order_placed")
    ELSE IF signal = "HOLD"
         THEN Outcome("none", NoneResult, <<>>, NotCalled, "hold")
         ELSE Outcome("none", NoneResult, <<>>, NotCalled, "invalid_signal")

NoTrade == [called |-> FALSE, symbol |-> "", signal |-> "", quantity |-> 0,
            before |-> 0,
            out |-> Outcome("none", NoneResult, <<>>, NotCalled, "none")]

---------------------------------------------------------------------------
(* Actions of the trading side.                                            *)

\* TradingEngine(exchange_handler=handler, config=config)
NewEngine(handler, config) ==
    /\ engine' = EngineInit(handler, config)
    /\ trade' = NoTrade
    /\ UNCHANGED <<orders, sigVars, auxVars>>

\* Whether execute_trade on this engine reaches a gateway order call.
CallsGateway(handler, signal) ==
    execute_trade(handler, "BTC/USDT", signal, 1, [kind |-> "None", exc |-> "none"]).calls # <<>>

\* execute_trade as it would be with a breaker that drops the handler after
\* a gateway failure.
ExecuteTradeCircuitBreaker(symbol, signal, quantity, resp) ==
    /\ engine.made
    /\ resp \in (IF CallsGateway(engine.exchange_handler, signal)
                 THEN Responses ELSE {NotCalled})
    /\ LET out == execute_trade(engine.exchange_handler, symbol, signal, quantity, resp)
           executes == out.gateway.kind = "order"
       IN /\ executes => Len(orders) < MaxOrders
          /\ trade' = [called |-> TRUE, symbol |-> symbol, signal |-> signal,
                       quantity |-> quantity, before |-> Len(orders), out |-> out]
          /\ orders' = IF executes
                       THEN Append(orders, GatewayOrder(out.calls[1].method,
                                                        out.calls[1].symbol,
                                                        out.calls[1].quantity))
                       ELSE orders
          /\ engine' = IF out.gateway.kind = "raise"
                       THEN [engine EXCEPT !.exchange_handler = HandlerNone]
                       ELSE engine
    /\ UNCHANGED <<sigVars, auxVars>>

\* engine.execute_trade(symbol, signal, quantity); the gateway answers with
\* resp when it is called, and its book grows by the order when it executes
\* one.
ExecuteTrade(symbol, signal, quantity, resp) ==
    /\ engine.made
    /\ resp \in (IF CallsGateway(engine.exchange_handler, signal)
                 THEN Responses ELSE {NotCalled})
    /\ LET out == execute_trade(engine.exchange_handler, symbol, signal, quantity, resp)
           executes == out.gateway.kind = "order"
       IN /\ executes => Len(orders) < MaxOrders
          /\ trade' = [called |-> TRUE, symbol |-> symbol, signal |-> signal,
                       quantity |-> quantity, before |-> Len(orders), out |-> out]
          /\ orders' = IF executes
                       THEN Append(orders, GatewayOrder(out.calls[1].method,
                                                        out.calls[1].symbol,
                                                        out.calls[1].quantity))
                       ELSE orders
    /\ UNCHANGED <<engine, sigVars, auxVars>>

---------------------------------------------------------------------------
(* The __main__ demonstration of signal_generator.py: a generator is built *)
(* and generate_signal is called on each growing prefix of a price table,  *)
(* from long_window rows up to the whole table.                            *)

SampleCloses == <<10, 12, 11, 13, 14, 15, 16, 17, 18, 17, 16, 15, 14>>
BullishCloses == <<20, 19, 18, 17, 16, 15, 18, 22, 23>>
BearishCloses == <<10, 11, 12, 13, 14, 15, 12, 10, 9>>

DemoNames == {"sample", "bullish", "bearish"}
DemoCloses(name) ==
    CASE name = "sample" -> SampleCloses
      [] name = "bullish" -> BullishCloses
      [] OTHER -> BearishCloses

DemoWindows == 1..DemoMaxWindow

\* df.iloc[:n] of the table built from the closes.
PrefixFrame(closes, n) == DataFrame(<<"close">>, [i \in 1..n |-> Num(closes[i])])

NoDemo == [series |-> "none", i |-> 0, verdicts |-> <<>>]

\* The generator of a demonstration is built; the loop starts at
\* i = long_window.
DemoStart(name, sw, lw) ==
    /\ ctor' = [called |-> TRUE, short_window |-> sw, long_window |-> lw,
                raised |-> InitRaises(sw, lw)]
    /\ gen' = IF InitRaises(sw, lw) = "none"
              THEN [made |-> TRUE, short_window |-> sw, long_window |-> lw]
              ELSE NoGen
    /\ demo' = IF InitRaises(sw, lw) = "none"
               THEN [series |-> name, i |-> lw, verdicts |-> <<>>]
               ELSE NoDemo
    /\ sig' = NoSig
    /\ UNCHANGED <<historical_data, tradeVars, rnd, grow, ioVars>>

\* One iteration of the loop: generate_signal on the prefix of i rows.
DemoStep ==
    /\ demo.series # "none"
    /\ demo.i <= Len(DemoCloses(demo.series))
    /\ LET data == PrefixFrame(DemoCloses(demo.series), demo.i)
           out == generate_signal(gen.short_window, gen.long_window, data)
       IN /\ historical_data' = data
          /\ sig' = [called |-> TRUE, outcome |-> out]
          /\ demo' = [demo EXCEPT !.i = @ + 1, !.verdicts = Append(@, out.value)]
    /\ UNCHANGED <<gen, ctor, tradeVars, rnd, grow, ioVars>>

---------------------------------------------------------------------------
(* RandomSignalGenerator.                                                  *)

\* Line 53: the list random.choice draws from.
RandomChoicesNoHold == {"BUY", "SELL"}
RandomChoices == {"BUY", "SELL", "HOLD"}

NoRnd == [called |-> FALSE, value |-> "none"]

\* RandomSignalGenerator().generate_signal(historical_data): the argument is
\* not read; random.choice is a free choice among the list's elements.
RandomGenerateSignal ==
    /\ \E v \in RandomChoices : rnd' = [called |-> TRUE, value |-> v]
    /\ UNCHANGED <<sigVars, tradeVars, demo, grow, ioVars>>

---------------------------------------------------------------------------
(* A caller that keeps one table of closes and asks for a verdict after    *)
(* every new candle: the loop of lines 186-193 on any closes.              *)

NoGrow == [on |-> FALSE, verdicts |-> <<>>]

\* The generator is built and the table starts with no rows.
GrowStart(sw, lw) ==
    /\ ctor' = [called |-> TRUE, short_window |-> sw, long_window |-> lw,
                raised |-> InitRaises(sw, lw)]
    /\ gen' = IF InitRaises(sw, lw) = "none"
              THEN [made |-> TRUE, short_window |-> sw, long_window |-> lw]
              ELSE NoGen
    /\ grow' = IF InitRaises(sw, lw) = "none"
               THEN [on |-> TRUE, verdicts |-> <<>>]
               ELSE NoGrow
    /\ historical_data' = DataFrame(<<"close">>, <<>>)
    /\ sig' = NoSig
    /\ UNCHANGED <<tradeVars, demo, rnd, ioVars>>

\* One more candle arrives and generate_signal is called on the grown table;
\* the k-th verdict is the one for the prefix of k rows.
GrowStep(c) ==
    /\ grow.on
    /\ DfLen(historical_data) < GrowMaxLen
    /\ LET data == [historical_data EXCEPT !.close = Append(@, c)]
           out == generate_signal(gen.short_window, gen.long_window, data)
       IN /\ historical_data' = data
          /\ sig' = [called |-> TRUE, outcome |-> out]
          /\ grow' = [grow EXCEPT !.verdicts = Append(@, out.value)]
    /\ UNCHANGED <<gen, ctor, tradeVars, demo, rnd, ioVars>>

---------------------------------------------------------------------------
(* DataFetcher: src/src/data_fetcher.py.                                   *)

\* Candles as the gateway's fetch_ohlcv returns them:
\* <<timestamp in ms, open, high, low, close, volume>>.
Candle1 == <<1, 600, 601, 599, 600, 100>>
Candle2 == <<2, 600, 602, 600, 601, 150>>

\* Exception classes fetch_ohlcv raises here: a NetworkError subclass, an
\* ExchangeError, and RuntimeError for any other Exception.
FetchErrors == {"RequestTimeout", "ExchangeError", "RuntimeError"}

\* What the gateway does with one fetch_ohlcv call: returns a list of
\* candles, returns None, or raises.
FetchResponses ==
    {[kind |-> "rows", rows |-> <<>>, exc |-> "none"],
     [kind |-> "rows", rows |-> <<Candle1, Candle2>>, exc |-> "none"],
     [kind |-> "None", rows |-> <<>>, exc |-> "none"]}
    \cup {[kind |-> "raise", rows |-> <<>>, exc |-> e] : e \in FetchErrors}
FetchNotCalled == [kind |-> "not_called", rows |-> <<>>, exc |-> "none"]

\* Symbols, as sequences of characters, and the characters of the model's
\* alphabet for which str.isalnum() is false.
FetchSymbols == {<<"B", "/", "U">>, <<"E", "/", "U", ":", "U">>}
Timeframes == {"1h", "1d"}
Punctuation == {"/", ":", "_", "-", "."}
IsAlnum(c) == c \notin Punctuation

\* The output_dir argument: None or a path; '' is a path no directory can
\* be made at.
NoDir == [isNone |-> TRUE, path |-> ""]
Dir(p) == [isNone |-> FALSE, path |-> p]
OutputDirs == {NoDir, Dir("data"), Dir("")}

\* What the disk does when asked: everything works, a directory cannot be
\* made, or the file cannot be opened for writing.
DiskStates == {"ok", "mkdir_fails", "open_fails"}

\* exchange.id of the handler's gateway (tests/mocks.py).
ExchangeId == "mock_exchange"

\* Python's None where a table is expected, and a table: its column labels
\* and its rows.
NoneTable == [isNone |-> TRUE, columns |-> <<>>, rows |-> <<>>]
Table(cols, rows) == [isNone |-> FALSE, columns |-> cols, rows |-> rows]

\* Line 64: the labels given to the six fields of a candle.
OhlcvColumns == <<"timestamp", "open", "high", "low", "close", "volume">>

\* A cell of the timestamp column: the gateway's integer, the datetime made
\* from it by pd.to_datetime(unit='ms'), and the text to_csv writes for it.
RawMs(ms) == [as |-> "int", ms |-> ms]
ToDatetime(cell) == [as |-> "datetime", ms |-> cell.ms]
DatetimeText(cell) == [as |-> "text", ms |-> cell.ms]

\* pd.DataFrame(ohlcv, columns=[...]): one row per candle, in order.
OhlcvRow(c) == [timestamp |-> RawMs(c[1]), open |-> c[2], high |-> c[3],
                low |-> c[4], close |-> c[5], volume |-> c[6]]
OhlcvFrame(ohlcv) == Table(OhlcvColumns, [i \in 1..Len(ohlcv) |-> OhlcvRow(ohlcv[i])])

\* Line 67: df['timestamp'] = pd.to_datetime(df['timestamp'], unit='ms')
ConvertTimestamps(df) ==
    [df EXCEPT !.rows = [i \in 1..Len(df.rows) |->
                            [df.rows[i] EXCEPT !.timestamp = ToDatetime(@)]]]

\* df.to_csv(filepath, index=False): the header and the rows as text.
ToCsv(df) ==
    [header |-> df.columns,
     rows |-> [i \in 1..Len(df.rows) |->
                  [df.rows[i] EXCEPT !.timestamp = DatetimeText(@)]]]

\* _make_safe_filename, line 23.
SafeFilenameSlashOnly(symbol) ==
    [i \in 1..Len(symbol) |-> IF symbol[i] # "/" THEN symbol[i] ELSE "_"]
SafeFilename(symbol) ==
    [i \in 1..Len(symbol) |-> IF IsAlnum(symbol[i]) THEN symbol[i] ELSE "_"]

\* Lines 84-87: the path of the CSV file, as the sequence of its pieces.
FilePath(output_dir, symbol, timeframe) ==
    <<output_dir.path, "/", ExchangeId, "_">> \o SafeFilename(symbol)
        \o <<"_", timeframe, ".csv">>

\* Lines 49: not ohlcv
NoCandles(resp) == resp.kind = "None" \/ Len(resp.rows) = 0

\* Line 51: what is returned when the gateway gave no candles.
NoDataResultNone == NoneTable
NoDataResult == Table(<<>>, <<>>)

\* Lines 53-61: the except clause that handles an exception raised by
\* fetch_ohlcv, tried in order; "none" when no clause matches.
FetchClauseNarrow(exc) ==
    IF IsInstance(exc, "NetworkError") THEN "network_error"
    ELSE IF IsInstance(exc, "ExchangeError") THEN "exchange_error"
    ELSE "none"
FetchClause(exc) ==
    IF IsInstance(exc, "NetworkError") THEN "network_error"
    ELSE IF IsInstance(exc, "ExchangeError") THEN "exchange_error"
    ELSE IF IsInstance(exc, "Exception") THEN "unexpected_error"
    ELSE "none"

\* Lines 77-82: os.makedirs(output_dir, exist_ok=True) raises OSError.
MakedirsRaises(output_dir, disk) == output_dir.path = "" \/ disk = "mkdir_fails"

\* Result of one fetch_historical_ohlcv call: the exception that left the
\* call (or "none"), the value returned, the return site, the directories
\* made and the files written.
FetchOut(raised, result, at, made, written) ==
    [raised |-> raised, result |-> result, at |-> at, made |-> made,
     written |-> written]

\* fetch_historical_ohlcv, lines 42-97; resp is what the gateway does if it
\* is called, disk what the disk does if it is asked.
fetch_historical_ohlcv(handler, symbol, timeframe, output_dir, resp, disk) ==
    IF handler.kind = "None" THEN FetchOut("none", NoneTable, "not_initialized", {}, {})
    ELSE IF handler.exchange = "missing"
         THEN FetchOut("AttributeError", NoneTable, "none", {}, {})
    ELSE IF handler.exchange = "None"
         THEN FetchOut("none", NoneTable, "not_initialized", {}, {})
    ELSE IF resp.kind = "raise"
         THEN IF FetchClause(resp.exc) = "none"
              THEN FetchOut(resp.exc, NoneTable, "none", {}, {})
              ELSE FetchOut("none", NoneTable, FetchClause(resp.exc), {}, {})
    ELSE IF NoCandles(resp) THEN FetchOut("none", NoDataResult, "no_data", {}, {})
    ELSE IF Len(OhlcvFrame(resp.rows).rows) = 0
         THEN FetchOut("none", OhlcvFrame(resp.rows), "empty_frame", {}, {})
    ELSE LET df == ConvertTimestamps(OhlcvFrame(resp.rows))
         IN IF output_dir.isNone THEN FetchOut("none", df, "no_save", {}, {})
            ELSE IF MakedirsRaises(output_dir, disk)
                 THEN FetchOut("none", NoneTable, "mkdir_error", {}, {})
            ELSE IF disk = "open_fails"
                 THEN FetchOut("none", NoneTable, "write_error", {output_dir.path}, {})
            ELSE FetchOut("none", df, "saved", {output_dir.path},
                          {[path |-> FilePath(output_dir, symbol, timeframe),
                            content |-> ToCsv(df)]})

NoFetcher == [made |-> FALSE, exchange_handler |-> HandlerNone]
EmptyDisk == [dirs |-> {}, files |-> {}]
NoFetch == [called |-> FALSE]

\* DataFetcher(exchange_handler=handler)
NewFetcher(handler) ==
    /\ fetcher' = [made |-> TRUE, exchange_handler |-> handler]
    /\ fetch' = NoFetch
    /\ UNCHANGED <<fs, sigVars, tradeVars, demo, rnd, grow, configVars>>

\* Whether fetch_historical_ohlcv on this fetcher reaches the gateway.
FetchCallsGateway(handler) == handler.kind # "None" /\ handler.exchange = "exchange"

\* fetcher.fetch_historical_ohlcv(symbol, timeframe, output_dir=output_dir):
\* directories made are added to the disk, a file written replaces the file
\* at its path.
Fetch(symbol, timeframe, output_dir, resp, disk) ==
    /\ fetcher.made
    /\ resp \in (IF FetchCallsGateway(fetcher.exchange_handler)
                 THEN FetchResponses ELSE {FetchNotCalled})
    /\ LET out == fetch_historical_ohlcv(fetcher.exchange_handler, symbol, timeframe,
                                         output_dir, resp, disk)
       IN /\ fetch' = [called |-> TRUE, symbol |-> symbol, timeframe |-> timeframe,
                       output_dir |-> output_dir, resp |-> resp, before |-> fs,
                       out |-> out]
          /\ fs' = [dirs |-> fs.dirs \cup out.made,
                    files |-> {f \in fs.files : \A w \in out.written : f.path # w.path}
                                  \cup out.written]
    /\ UNCHANGED <<fetcher, sigVars, tradeVars, demo, rnd, grow, configVars>>

---------------------------------------------------------------------------
(* load_config: src/src/config_manager.py.                                 *)

\* The value of an option as the file gives it: no such option, or its text
\* with the surrounding blanks stripped.
Absent == "<absent>"

KeyValues == {Absent, "", "TEST_KEY"}
SecretValues == {Absent, "", "TEST_SECRET", "ab%cd"}
ExchangeIdValues == {Absent, "", "test_exchange"}
TestnetValues == {Absent, "", "True", "no", "NOT_A_BOOLEAN"}
LogLevelValues == {Absent, "", "DEBUG"}
LogFileValues == {Absent, "", "logs/test.log", "logs/%d.log"}

\* What is stored at the path: nothing, bytes that do not decode, text that
\* is no INI file, or an INI file with its sections and options.
ExchangeSection(present, key, secret, id, testnet) ==
    [present |-> present, API_KEY |-> key, API_SECRET |-> secret,
     DEFAULT_EXCHANGE_ID |-> id, USE_TESTNET |-> testnet]
GeneralSection(present, level, file) ==
    [present |-> present, LOG_LEVEL |-> level, LOG_FILE |-> file]
NoExchangeSection == ExchangeSection(FALSE, Absent, Absent, Absent, Absent)
NoGeneralSection == GeneralSection(FALSE, Absent, Absent)
NoIniFile(kind) == [kind |-> kind]
IniFile(exchange, general) ==
    [kind |-> "ini", exchange |-> exchange, general |-> general]

ExchangeSections ==
    {NoExchangeSection}
    \cup {ExchangeSection(TRUE, k, s, i, t) :
             k \in KeyValues, s \in SecretValues, i \in ExchangeIdValues,
             t \in TestnetValues}
GeneralSections ==
    {NoGeneralSection}
    \cup {GeneralSection(TRUE, l, f) : l \in LogLevelValues, f \in LogFileValues}

\* ConfigParser.get with the default interpolation: the exception it raises,
\* or "none".  A '%' that starts no reference is a syntax error.
BadInterpolation(v) == v \in {"ab%cd", "logs/%d.log"}
GetError(v) ==
    IF v = Absent THEN "NoOptionError"
    ELSE IF BadInterpolation(v) THEN "InterpolationSyntaxError"
    ELSE "none"

\* ConfigParser.getboolean: the texts it accepts, case-insensitively.
TrueTexts == {"True", "yes", "on", "1"}
FalseTexts == {"False", "no", "off", "0"}
GetBooleanError(v) ==
    IF GetError(v) # "none" THEN GetError(v)
    ELSE IF v \notin TrueTexts \cup FalseTexts THEN "ValueError"
    ELSE "none"

\* Lines 36-39: the first exception raised by the four reads, or "none".
ExchangeReadError(e) ==
    IF GetError(e.API_KEY) # "none" THEN GetError(e.API_KEY)
    ELSE IF GetError(e.API_SECRET) # "none" THEN GetError(e.API_SECRET)
    ELSE IF GetError(e.DEFAULT_EXCHANGE_ID) # "none" THEN GetError(e.DEFAULT_EXCHANGE_ID)
    ELSE GetBooleanError(e.USE_TESTNET)

\* Lines 40-48: the except clause that handles it.
ExchangeClause(err) ==
    IF err = "NoOptionError" THEN "missing_option"
    ELSE IF err = "ValueError" THEN "invalid_boolean"
    ELSE "unexpected_error"

\* Lines 62-80: a logging option read with its fallback; the default stays
\* when the text is blank.
GeneralGet(v, default) == IF v \in {Absent, ""} THEN default ELSE v
LogLevel(g) ==
    IF ~g.present \/ BadInterpolation(g.LOG_LEVEL) \/ BadInterpolation(g.LOG_FILE)
    THEN "INFO" ELSE GeneralGet(g.LOG_LEVEL, "INFO")
LogFile(g) ==
    IF ~g.present \/ BadInterpolation(g.LOG_LEVEL) \/ BadInterpolation(g.LOG_FILE)
    THEN "logs/app.log" ELSE GeneralGet(g.LOG_FILE, "logs/app.log")

\* Python's None where the configuration map is expected, and the map.
NoneConfig == [isNone |-> TRUE, api_key |-> "", api_secret |-> "",
               default_exchange_id |-> "", use_testnet |-> FALSE,
               LOG_LEVEL |-> "", LOG_FILE |-> ""]
ConfigValues(e, g) ==
    [isNone |-> FALSE, api_key |-> e.API_KEY, api_secret |-> e.API_SECRET,
     default_exchange_id |-> e.DEFAULT_EXCHANGE_ID,
     use_testnet |-> e.USE_TESTNET \in TrueTexts,
     LOG_LEVEL |-> LogLevel(g), LOG_FILE |-> LogFile(g)]

LoadOut(raised, result, at) == [raised |-> raised, result |-> result, at |-> at]

\* load_config, lines 17-83.
load_config(f) ==
    IF f.kind = "missing" THEN LoadOut("none", NoneConfig, "not_found")
    ELSE IF f.kind = "undecodable" THEN LoadOut("UnicodeDecodeError", NoneConfig, "none")
    ELSE IF f.kind = "unparsable" THEN LoadOut("none", NoneConfig, "read_error")
    ELSE IF ~f.exchange.present THEN LoadOut("none", NoneConfig, "no_section")
    ELSE IF ExchangeReadError(f.exchange) # "none"
         THEN LoadOut("none", NoneConfig, ExchangeClause(ExchangeReadError(f.exchange)))
    ELSE IF f.exchange.API_KEY = "" THEN LoadOut("none", NoneConfig, "empty_api_key")
    ELSE IF f.exchange.API_SECRET = "" THEN LoadOut("none", NoneConfig, "empty_api_secret")
    ELSE IF f.exchange.DEFAULT_EXCHANGE_ID = ""
         THEN LoadOut("none", NoneConfig, "empty_exchange_id")
    ELSE LoadOut("none", ConfigValues(f.exchange, f.general), "loaded")

NoCfg == [called |-> FALSE]

\* The file at the configuration path is removed or replaced by something
\* that is no INI file.
ReplaceConfig(kind) ==
    /\ config_file' = NoIniFile(kind)
    /\ cfg' = NoCfg
    /\ UNCHANGED <<sigVars, tradeVars, demo, rnd, grow, fetchVars>>

\* The file is written as an INI file with one of its two sections edited.
WriteExchangeSection(e) ==
    /\ config_file' = IniFile(e, IF config_file.kind = "ini"
                                 THEN config_file.general ELSE NoGeneralSection)
    /\ cfg' = NoCfg
    /\ UNCHANGED <<sigVars, tradeVars, demo, rnd, grow, fetchVars>>
WriteGeneralSection(g) ==
    /\ config_file' = IniFile(IF config_file.kind = "ini"
                              THEN config_file.exchange ELSE NoExchangeSection, g)
    /\ cfg' = NoCfg
    /\ UNCHANGED <<sigVars, tradeVars, demo, rnd, grow, fetchVars>>

\* load_config(config_path)
LoadConfig ==
    /\ cfg' = [called |-> TRUE, out |-> load_config(config_file)]
    /\ UNCHANGED <<config_file, sigVars, tradeVars, demo, rnd, grow, fetchVars>>

---------------------------------------------------------------------------
(* Specifications.                                                         *)

Init ==
    /\ gen = NoGen
    /\ ctor = NoCtor
    /\ historical_data = NoneValue
    /\ sig = NoSig
    /\ engine = NoEngine
    /\ orders = <<>>
    /\ trade = NoTrade
    /\ demo = NoDemo
    /\ rnd = NoRnd
    /\ grow = NoGrow
    /\ fetcher = NoFetcher
    /\ fs = EmptyDisk
    /\ fetch = NoFetch
    /\ config_file = NoIniFile("missing")
    /\ cfg = NoCfg

\* Inputs that are no table of closes, and the empty tables rows are added to.
ProgramInputs ==
    {NoneValue, ListValue, DataFrame(<<>>, <<>>),
     DataFrame(<<"close">>, <<>>), DataFrame(<<"open">>, <<>>)}
AnyInputs == ProgramInputs \cup {DataFrame(<<"close", "close">>, <<>>)}

\* The signal generator on the inputs the program hands it.
NextSignal ==
    \/ \E sw \in Windows, lw \in Windows : Construct(sw, lw)
    \/ \E v \in ProgramInputs : SetInput(v)
    \/ \E c \in NumericCells : AppendCandle(c)
    \/ GenerateSignal

SpecSignal == Init /\ [][NextSignal]_vars

\* The signal generator on any input: tables whose labels repeat and cells
\* that are no numbers included.
NextSignalAny ==
    \/ \E sw \in Windows, lw \in Windows : Construct(sw, lw)
    \/ \E v \in AnyInputs : SetInput(v)
    \/ \E c \in NumericCells : AppendCandle(c)
    \/ /\ ~CloseIsFrame(historical_data)
       /\ AppendCandle(ObjCell)
    \/ GenerateSignal

SpecSignalAny == Init /\ [][NextSignalAny]_vars

\* The engine built the way the program builds it: no handler, or an
\* ExchangeHandler, whose exchange attribute is always assigned.
NextTrade ==
    \/ \E h \in ProgramHandlers, c \in {"None", "trade_params"} : NewEngine(h, c)
    \/ \E s \in Symbols, g \in Signals, q \in Quantities,
          r \in Responses \cup {NotCalled} :
           ExecuteTrade(s, g, q, r)

SpecTrade == Init /\ [][NextTrade]_vars

\* The engine built with any object as its handler.
NextTradeAny ==
    \/ \E h \in AnyHandlers, c \in {"None", "trade_params"} : NewEngine(h, c)
    \/ \E s \in Symbols, g \in Signals, q \in Quantities,
          r \in Responses \cup {NotCalled} :
           ExecuteTrade(s, g, q, r)

SpecTradeAny == Init /\ [][NextTradeAny]_vars

\* The demonstration loops of signal_generator.py.
NextDemo ==
    \/ \E name \in DemoNames, sw \in DemoWindows, lw \in DemoWindows :
           DemoStart(name, sw, lw)
    \/ DemoStep

SpecDemo == Init /\ [][NextDemo]_vars

\* The random generator, called on whatever the caller holds.
NextRandom ==
    \/ \E v \in ProgramInputs : SetInput(v)
    \/ \E c \in NumericCells : AppendCandle(c)
    \/ RandomGenerateSignal

SpecRandom == Init /\ [][NextRandom]_vars

\* A table that grows by one candle between calls.
NextGrow ==
    \/ \E sw \in Windows, lw \in Windows : GrowStart(sw, lw)
    \/ \E c \in NumericCells : GrowStep(c)

SpecGrow == Init /\ [][NextGrow]_vars

\* The data fetcher built on the handlers the program builds.
NextFetch ==
    \/ \E h \in ProgramHandlers : NewFetcher(h)
    \/ \E s \in FetchSymbols, t \in Timeframes, d \in OutputDirs,
          r \in FetchResponses \cup {FetchNotCalled}, k \in DiskStates :
           Fetch(s, t, d, r, k)

SpecFetch == Init /\ [][NextFetch]_vars

\* The configuration file and its loading.
NextConfig ==
    \/ \E k \in {"missing", "undecodable", "unparsable"} : ReplaceConfig(k)
    \/ \E e \in ExchangeSections : WriteExchangeSection(e)
    \/ \E g \in GeneralSections : WriteGeneralSection(g)
    \/ LoadConfig

SpecConfig == Init /\ [][NextConfig]_vars

Next == NextSignal \/ NextTrade \/ NextDemo \/ NextRandom \/ NextGrow
            \/ NextFetch \/ NextConfig
Spec == Init /\ [][Next]_vars

---------------------------------------------------------------------------
(* Properties of the constructor and of generate_signal.                   *)

VerdictValues == {"BUY", "SELL", "HOLD"}

\* C1: constructing a crossover generator with short_window >= long_window
\* raises ValueError and leaves no usable instance; with short_window <
\* long_window construction succeeds and the instance stores both windows.
C1_WindowCheck ==
    ctor.called =>
        /\ ctor.short_window >= ctor.long_window =>
               ctor.raised = "ValueError" /\ ~gen.made
        /\ ctor.short_window < ctor.long_window =>
               /\ ctor.raised = "none"
               /\ gen.made
               /\ gen.short_window = ctor.short_window
               /\ gen.long_window = ctor.long_window

\* The boundary case short_window = long_window was refused.
C1_Witness ==
    /\ ctor.called
    /\ ctor.short_window = ctor.long_window
    /\ ctor.raised = "ValueError"
    /\ ~gen.made

\* The four averages of the call recorded in sig: current and previous
\* short, current and previous long, over the single 'close' column.
CallN == DfLen(historical_data)
CurShort == RollingMeanAt(historical_data.close, gen.short_window, CallN)
PrevShort == RollingMeanAt(historical_data.close, gen.short_window, CallN - 1)
CurLong == RollingMeanAt(historical_data.close, gen.long_window, CallN)
PrevLong == RollingMeanAt(historical_data.close, gen.long_window, CallN - 1)
FourDefined ==
    /\ sig.called
    /\ historical_data.type = "DataFrame"
    /\ HasClose(historical_data) /\ ~CloseIsFrame(historical_data)
    /\ CallN >= 2
    /\ CurShort.def /\ PrevShort.def /\ CurLong.def /\ PrevLong.def

\* C2: with all four averages defined, the verdict is BUY exactly when
\* cs > cl and ps <= pl, SELL exactly when cs < cl and ps >= pl, and HOLD
\* in every other case.
C2_CrossoverRule ==
    FourDefined =>
        /\ sig.outcome.raised = "none"
        /\ sig.outcome.value = "BUY" <=>
               (CurShort.num * CurLong.den > CurLong.num * CurShort.den
                /\ PrevShort.num * PrevLong.den <= PrevLong.num * PrevShort.den)
        /\ sig.outcome.value = "SELL" <=>
               (CurShort.num * CurLong.den < CurLong.num * CurShort.den
                /\ PrevShort.num * PrevLong.den >= PrevLong.num * PrevShort.den)
        /\ sig.outcome.value \in VerdictValues

\* A BUY enabled by equality of the two averages at the previous step.
C2_Witness ==
    /\ FourDefined
    /\ sig.outcome.value = "BUY"
    /\ PrevShort.num * PrevLong.den = PrevLong.num * PrevShort.den

\* C3: for every constructed generator and every input, generate_signal
\* returns one of BUY, SELL, HOLD and never raises.
C3_NeverRaises ==
    sig.called =>
        sig.outcome.raised = "none" /\ sig.outcome.value \in VerdictValues

---------------------------------------------------------------------------
(* Properties of execute_trade.                                            *)

Out == trade.out
ExpectedMethod == IF trade.signal = "BUY" THEN "create_market_buy_order"
                  ELSE "create_market_sell_order"

\* C4: a BUY (SELL) on an engine whose gateway is initialized makes exactly
\* one gateway call, a market buy (sell) with the given symbol and quantity,
\* whether that call returns or raises.
C4_OneOrderCall ==
    (trade.called /\ engine.exchange_handler = HandlerReady
     /\ trade.signal \in {"BUY", "SELL"}) =>
        /\ Len(Out.calls) = 1
        /\ Out.calls[1] = [method |-> ExpectedMethod, symbol |-> trade.symbol,
                           quantity |-> trade.quantity]

\* A SELL whose single gateway call raised: no second call followed.
C4_Witness ==
    /\ trade.called /\ engine.exchange_handler = HandlerReady
    /\ trade.signal = "SELL"
    /\ Out.gateway.kind = "raise"
    /\ Len(Out.calls) = 1
    /\ Out.calls[1].method = "create_market_sell_order"

\* C5: for every signal other than the exact strings BUY and SELL,
\* execute_trade makes no gateway call and returns None.
C5_NoDispatch ==
    (trade.called /\ trade.signal \notin {"BUY", "SELL"}) =>
        /\ Out.calls = <<>>
        /\ Out.raised = "none"
        /\ Out.result = NoneResult
        /\ Len(orders) = trade.before

\* An unrecognized signal on an initialized engine was turned away.
C5_Witness ==
    /\ trade.called /\ engine.exchange_handler = HandlerReady
    /\ trade.signal = "WAIT"
    /\ Out.calls = <<>>
    /\ Out.result = NoneResult
    /\ Out.log = "invalid_signal"

\* C6: when the gateway order call raises, whatever the exception,
\* execute_trade returns None and the exception does not leave the call.
C6_FailureAbsorbed ==
    (trade.called /\ Out.gateway.kind = "raise") =>
        /\ Out.raised = "none"
        /\ Out.result = NoneResult

\* An exception outside the three ccxt categories was absorbed.
C6_Witness ==
    /\ trade.called
    /\ Out.gateway = [kind |-> "raise", exc |-> "RuntimeError"]
    /\ Out.raised = "none"
    /\ Out.result = NoneResult

\* C7: execute_trade never raises, whatever object the engine was built
\* with as its handler.
C7_NeverRaises ==
    trade.called => Out.raised = "none"

\* C8: with the handler absent or its exchange None, execute_trade returns
\* None and attempts no order, for every signal.
C8_NotInitialized ==
    (trade.called /\ engine.exchange_handler \in {HandlerNone, HandlerNoExchange}) =>
        /\ Out.raised = "none"
        /\ Out.result = NoneResult
        /\ Out.calls = <<>>
        /\ Len(orders) = trade.before

\* A BUY on an engine whose handler has no exchange was turned away.
C8_Witness ==
    /\ trade.called /\ engine.exchange_handler = HandlerNoExchange
    /\ trade.signal = "BUY"
    /\ Out.result = NoneResult
    /\ Out.calls = <<>>

\* C9: when the gateway order call returns, execute_trade returns exactly
\* the value the gateway returned: the order the gateway booked, field for
\* field, or None when the gateway returned None.
C9_ResultPassThrough ==
    (trade.called /\ Out.gateway.kind \in {"order", "None"}) =>
        /\ Out.raised = "none"
        /\ Out.gateway.kind = "order" =>
               /\ Len(orders) = trade.before + 1
               /\ Out.result = orders[Len(orders)]
        /\ Out.gateway.kind = "None" => Out.result = NoneResult

\* An executed order came back with all its fields.
C9_Witness ==
    /\ trade.called /\ Out.gateway.kind = "order"
    /\ Out.result = orders[Len(orders)]
    /\ Out.result.status = "closed" /\ Out.result.side = "buy"
    /\ Out.result.amount = trade.quantity

\* C10: whenever execute_trade returns None, the gateway executed no order
\* during that call.
C10_NullMeansNoTrade ==
    (trade.called /\ Out.raised = "none" /\ Out.result.isNone) =>
        Len(orders) = trade.before

\* None came back after a network failure and the book is as it was.
C10_Witness ==
    /\ trade.called /\ Out.gateway.kind = "raise"
    /\ IsInstance(Out.gateway.exc, "NetworkError")
    /\ Out.result.isNone
    /\ Len(orders) = trade.before

---------------------------------------------------------------------------
(* Properties of the history checks and of the demonstration runs.          *)

\* C11: a table with fewer than long_window rows yields HOLD, returned by
\* one of the checks that precede the moving averages, whatever its closes.
C11_ShortHistory ==
    (sig.called /\ historical_data.type = "DataFrame"
     /\ DfLen(historical_data) < gen.long_window) =>
        /\ sig.outcome.raised = "none"
        /\ sig.outcome.value = "HOLD"
        /\ sig.outcome.at \in {"empty", "no_close", "short_history"}

\* A table of exactly long_window - 1 closes was answered HOLD at the
\* length check.
C11_Witness ==
    /\ sig.called /\ HasClose(historical_data)
    /\ DfLen(historical_data) >= 1
    /\ DfLen(historical_data) = gen.long_window - 1
    /\ sig.outcome = Returned("HOLD", "short_history")

\* long_window closes of 1 followed by one close of 2.
Spike(lw) == DataFrame(<<"close">>, [i \in 1..(lw + 1) |-> Num(IF i <= lw THEN 1 ELSE 2)])

\* C12 as stated: for valid windows some table of exactly long_window
\* closes is answered BUY or SELL.
C12_Original ==
    (gen.made /\ gen.short_window >= 1) =>
        \E cells \in [1..gen.long_window -> NumericCells] :
            generate_signal(gen.short_window, gen.long_window,
                            DataFrame(<<"close">>, cells)).value \in {"BUY", "SELL"}

\* C12 amended: a table of at most long_window rows is always answered
\* HOLD, and with 1 <= short_window < long_window there is a table of
\* long_window + 1 closes that is answered BUY: long_window + 1 is the first
\* length at which a verdict other than HOLD is possible.
C12_FirstLength ==
    /\ (sig.called /\ historical_data.type = "DataFrame"
        /\ DfLen(historical_data) <= gen.long_window) =>
           sig.outcome = Returned("HOLD", sig.outcome.at)
    /\ (gen.made /\ gen.short_window >= 1) =>
           generate_signal(gen.short_window, gen.long_window,
                           Spike(gen.long_window)).value = "BUY"

\* A call on long_window + 1 closes that was answered BUY or SELL.
C12_Witness ==
    /\ sig.called /\ HasClose(historical_data)
    /\ DfLen(historical_data) = gen.long_window + 1
    /\ sig.outcome.value \in {"BUY", "SELL"}

\* C13: None, a value that is no table, an empty table and a table without
\* a close column are answered HOLD, and nothing is raised.
C13_MalformedInput ==
    (sig.called /\ (historical_data.type # "DataFrame" \/ DfEmpty(historical_data)
                    \/ ~HasClose(historical_data))) =>
        /\ sig.outcome.raised = "none"
        /\ sig.outcome.value = "HOLD"

\* A table with enough rows but no close column was answered HOLD.
C13_Witness ==
    /\ sig.called /\ historical_data.type = "DataFrame"
    /\ ~HasClose(historical_data)
    /\ DfLen(historical_data) >= gen.long_window /\ gen.long_window >= 1
    /\ sig.outcome = Returned("HOLD", "no_close")

RECURSIVE SumSeq(_, _, _)
SumSeq(seq, lo, hi) == IF lo > hi THEN 0 ELSE seq[lo] + SumSeq(seq, lo + 1, hi)

\* On the first n closes, with windows 3 and 5: the short average is above
\* (below) the long one now and was at or below (at or above) it one row
\* earlier.
CrossUp(closes, n) ==
    /\ SumSeq(closes, n - 2, n) * 5 > SumSeq(closes, n - 4, n) * 3
    /\ SumSeq(closes, n - 3, n - 1) * 5 <= SumSeq(closes, n - 5, n - 1) * 3
CrossDown(closes, n) ==
    /\ SumSeq(closes, n - 2, n) * 5 < SumSeq(closes, n - 4, n) * 3
    /\ SumSeq(closes, n - 3, n - 1) * 5 >= SumSeq(closes, n - 5, n - 1) * 3

\* The loop over the named table with windows 3 and 5 has finished: its
\* k-th verdict is the one for the prefix of k + 4 rows.
DemoDone(name) ==
    /\ demo.series = name
    /\ gen.short_window = 3 /\ gen.long_window = 5
    /\ demo.i = Len(DemoCloses(name)) + 1
CountOf(v) == Cardinality({k \in 1..Len(demo.verdicts) : demo.verdicts[k] = v})

\* C14: on the bullish closes the verdicts for the prefixes of 5..9 rows
\* hold exactly one BUY and no SELL, only HOLD precedes the BUY, and the BUY
\* is at the first prefix at which the short average crosses above.
C14_BullishRun ==
    DemoDone("bullish") =>
        /\ Len(demo.verdicts) = 5
        /\ CountOf("BUY") = 1 /\ CountOf("SELL") = 0
        /\ \E k \in 1..5 :
              /\ demo.verdicts[k] = "BUY"
              /\ \A j \in 1..(k - 1) : demo.verdicts[j] = "HOLD"
              /\ CrossUp(BullishCloses, k + 4)
              /\ \A m \in 6..(k + 3) : ~CrossUp(BullishCloses, m)

\* The finished bullish run.
C14_Witness ==
    /\ DemoDone("bullish")
    /\ demo.verdicts = <<"HOLD", "HOLD", "HOLD", "BUY", "HOLD">>

\* C15: on the bearish closes the verdicts for the prefixes of 5..9 rows
\* hold exactly one SELL and no BUY, and the SELL is at the prefix length
\* at which the bullish closes give their BUY.
C15_BearishRun ==
    DemoDone("bearish") =>
        /\ Len(demo.verdicts) = 5
        /\ CountOf("SELL") = 1 /\ CountOf("BUY") = 0
        /\ \E k \in 1..5 :
              /\ demo.verdicts[k] = "SELL"
              /\ CrossDown(BearishCloses, k + 4)
              /\ \A n \in 5..9 :
                    generate_signal(3, 5, PrefixFrame(BullishCloses, n)).value = "BUY"
                        <=> n = k + 4

\* The finished bearish run.
C15_Witness ==
    /\ DemoDone("bearish")
    /\ demo.verdicts = <<"HOLD", "HOLD", "HOLD", "SELL", "HOLD">>

\* C17: every call of the random generator returns BUY, SELL or HOLD, and
\* whatever the caller holds as input each of the three can be the result of
\* the next call.
C17_RandomVerdict ==
    /\ rnd.called => rnd.value \in VerdictValues
    /\ \A v \in VerdictValues : ENABLED (RandomGenerateSignal /\ rnd'.value = v)

\* With None as the input a call returned SELL.
C17_Witness ==
    /\ rnd.called /\ rnd.value = "SELL"
    /\ historical_data = NoneValue

\* C18: every order request sent to the gateway carries a quantity > 0.
C18_PositiveQuantity ==
    trade.called => \A k \in 1..Len(Out.calls) : Out.calls[k].quantity > 0

\* C19: every constructed generator has positive windows with
\* short_window < long_window.
C19_PositiveWindows ==
    gen.made =>
        /\ gen.short_window >= 1 /\ gen.long_window >= 1
        /\ gen.short_window < gen.long_window

\* What a call returns, told from its arguments, the engine's handler and
\* the gateway's answer alone.
C20_ResultFromArgs ==
    /\ Out.raised = "none"
    /\ Out.gateway.kind # "not_called" <=>
           (engine.exchange_handler = HandlerReady /\ trade.signal \in {"BUY", "SELL"})
    /\ Out.result = IF Out.gateway.kind = "order"
                    THEN GatewayOrder(ExpectedMethod, trade.symbol, trade.quantity)
                    ELSE NoneResult

\* C20: an execute_trade call leaves the engine's handler and configuration
\* as they were, and its result is told by its arguments and the gateway's
\* answer, whatever the calls before it.
C20_EngineFrame ==
    [][trade'.called => (engine' = engine /\ C20_ResultFromArgs')]_vars

\* A failed call after an earlier executed order, the engine as built.
C20_Witness ==
    /\ trade.called /\ trade.before = 1
    /\ Out.gateway.kind = "raise"
    /\ engine = EngineInit(HandlerReady, "trade_params")

---------------------------------------------------------------------------
(* Frame, guard and symmetry properties of generate_signal.                *)

\* C21: a generate_signal call leaves the caller's table (rows, columns,
\* values) and the generator's short_window and long_window as they were,
\* whichever return it takes.
C21_InputUntouched ==
    [][sig'.called => (historical_data' = historical_data /\ gen' = gen)]_vars

\* A call that went through the averages to a SELL, the table still the
\* caller's single close column.
C21_Witness ==
    /\ sig.called /\ sig.outcome = Returned("SELL", "decision")
    /\ historical_data.columns = <<"close">>
    /\ DfLen(historical_data) > gen.long_window
    /\ gen = [made |-> TRUE, short_window |-> ctor.short_window,
              long_window |-> ctor.long_window]

\* C26: an exception raised by the gateway order call is handled by exactly
\* one of four clauses: InsufficientFunds by the first, a network failure by
\* the second, any other exchange failure by the third, anything else by
\* the last.
C26_Classification ==
    (trade.called /\ Out.gateway.kind = "raise") =>
        /\ Out.log \in {"insufficient_funds", "network_error", "exchange_error",
                        "unexpected_error"}
        /\ Out.log = "insufficient_funds" <=> Out.gateway.exc = "InsufficientFunds"
        /\ Out.log = "network_error" <=>
               Out.gateway.exc \in {"NetworkError", "RequestTimeout"}
        /\ Out.log = "exchange_error" <=> Out.gateway.exc = "ExchangeError"
        /\ Out.log = "unexpected_error" <=> Out.gateway.exc = "RuntimeError"

\* An insufficient-funds failure, which is also an ExchangeError, was
\* handled by the first clause.
C26_Witness ==
    /\ trade.called
    /\ Out.gateway = [kind |-> "raise", exc |-> "InsufficientFunds"]
    /\ IsInstance(Out.gateway.exc, "ExchangeError")
    /\ Out.log = "insufficient_funds"

\* The number of rows of the caller's table at which the average over w
\* rows is defined: the window is full and holds numbers only.
HasAverage(w, i) ==
    /\ w >= 1 /\ i >= w
    /\ \A j \in (i - w + 1)..i : historical_data.close[j].k = "num"
DefinedCount(w) == Cardinality({i \in 1..CallN : HasAverage(w, i)})

\* The call recorded in sig passed the length check and computed both
\* averages.
AveragesComputed ==
    /\ sig.called
    /\ historical_data.type = "DataFrame" /\ ~DfEmpty(historical_data)
    /\ HasClose(historical_data) /\ ~CloseIsFrame(historical_data)
    /\ CallN >= gen.long_window
    /\ gen.short_window >= 0

\* C27: once both averages are computed, generate_signal returns HOLD at
\* the check of line 111 exactly when the short or the long average has
\* fewer than two defined values.
C27_GuardBoundary ==
    AveragesComputed =>
        /\ sig.outcome.at = "guard" <=>
               (DefinedCount(gen.short_window) < 2 \/ DefinedCount(gen.long_window) < 2)
        /\ sig.outcome.at = "guard" => sig.outcome = Returned("HOLD", "guard")

\* A table longer than long_window was turned away at line 111 because of
\* undefined closes.
C27_Witness ==
    /\ AveragesComputed /\ gen.short_window >= 1
    /\ CallN > gen.long_window
    /\ sig.outcome.at = "guard"
    /\ DefinedCount(gen.short_window) >= 2
    /\ DefinedCount(gen.long_window) < 2

\* generate_signal without the check of line 111, on a table with one close
\* column and at least two rows: the length check, then the four averages
\* must be defined, then the decision.
SignalWithoutGuard(sw, lw, data) ==
    LET n == DfLen(data)
        cs == RollingMeanAt(data.close, sw, n)
        ps == RollingMeanAt(data.close, sw, n - 1)
        cl == RollingMeanAt(data.close, lw, n)
        pl == RollingMeanAt(data.close, lw, n - 1)
    IN IF n < lw THEN "HOLD"
       ELSE IF cs.def /\ ps.def /\ cl.def /\ pl.def THEN Decide(cs, ps, cl, pl)
       ELSE "HOLD"

\* C28: for windows 1 <= short_window < long_window and a table of at least
\* two closes, generate_signal returns the verdict it would return without
\* the check of line 111.
C28_GuardRedundant ==
    (sig.called /\ historical_data.type = "DataFrame"
     /\ historical_data.columns = <<"close">>
     /\ CallN >= 2 /\ gen.short_window >= 1) =>
        /\ sig.outcome.raised = "none"
        /\ sig.outcome.value =
               SignalWithoutGuard(gen.short_window, gen.long_window, historical_data)

\* With short_window = 1 the check of line 111 let a table through whose
\* current or previous average is undefined; the later check answered HOLD.
C28_Witness ==
    /\ sig.called /\ gen.short_window = 1
    /\ historical_data.columns = <<"close">>
    /\ CallN >= 2
    /\ sig.outcome = Returned("HOLD", "nan_check")

\* C29: as the table grows by one candle per call, no two consecutive
\* verdicts are both BUY and no two are both SELL.
C29_NoRepeatedSignal ==
    \A k \in 1..(Len(grow.verdicts) - 1) :
        /\ ~(grow.verdicts[k] = "BUY" /\ grow.verdicts[k + 1] = "BUY")
        /\ ~(grow.verdicts[k] = "SELL" /\ grow.verdicts[k + 1] = "SELL")

\* A BUY was followed by a SELL on the next prefix.
C29_Witness ==
    \E k \in 1..(Len(grow.verdicts) - 1) :
        grow.verdicts[k] = "BUY" /\ grow.verdicts[k + 1] = "SELL"

\* The table with every close c replaced by K - c; an undefined close stays
\* undefined.
MirrorCell(K, c) == IF c.k = "num" THEN Num(K - c.v) ELSE c
Mirror(K, data) ==
    [data EXCEPT !.close = [i \in 1..Len(data.close) |-> MirrorCell(K, data.close[i])]]
MirrorConstants == {0, 1, MaxClose + 1}
Flip(v) == IF v = "BUY" THEN "SELL" ELSE IF v = "SELL" THEN "BUY" ELSE v

\* C30: for windows 1 <= short_window < long_window, the verdict on the
\* table mirrored about any constant K is SELL where the verdict on the
\* table is BUY, BUY where it is SELL, and HOLD where it is HOLD.
C30_MirrorSymmetry ==
    (sig.called /\ historical_data.type = "DataFrame" /\ gen.short_window >= 1) =>
        /\ sig.outcome.raised = "none"
        /\ \A K \in MirrorConstants :
              generate_signal(gen.short_window, gen.long_window,
                              Mirror(K, historical_data))
                  = Returned(Flip(sig.outcome.value), sig.outcome.at)

\* A SELL out of equal averages one row earlier, whose mirror image is a BUY.
C30_Witness ==
    /\ FourDefined /\ gen.short_window >= 1
    /\ sig.outcome.value = "SELL"
    /\ PrevShort.num * PrevLong.den = PrevLong.num * PrevShort.den
    /\ generate_signal(gen.short_window, gen.long_window,
                       Mirror(MaxClose + 1, historical_data)).value = "BUY"

---------------------------------------------------------------------------
(* Properties of fetch_historical_ohlcv.                                   *)

FetchFailed ==
    /\ fetch.called
    /\ \/ fetcher.exchange_handler \in {HandlerNone, HandlerNoExchange}
       \/ fetch.resp.kind = "raise"

\* C22: with the handler absent, its exchange None, or fetch_ohlcv raising
\* any exception, fetch_historical_ohlcv returns None, raises nothing and
\* leaves the disk as it was: no directory made, no file written.
C22_FetchFailure ==
    FetchFailed =>
        /\ fetch.out.raised = "none"
        /\ fetch.out.result = NoneTable
        /\ fs = fetch.before

\* An exception outside the ccxt classes, with an output directory given on
\* an empty disk: None came back and the disk is still empty.
C22_Witness ==
    /\ fetch.called /\ fetch.resp.kind = "raise" /\ fetch.resp.exc = "RuntimeError"
    /\ fetch.output_dir = Dir("data")
    /\ fetch.out.result = NoneTable
    /\ fs = EmptyDisk

FetchedRows ==
    /\ fetch.called /\ fetch.resp.kind = "rows" /\ Len(fetch.resp.rows) > 0

\* t is the table of the candles the gateway returned: the six columns, one
\* row per candle in the gateway's order.
FullTable(t) ==
    /\ ~t.isNone
    /\ t.columns = <<"timestamp", "open", "high", "low", "close", "volume">>
    /\ Len(t.rows) = Len(fetch.resp.rows)
    /\ \A i \in 1..Len(t.rows) :
          /\ t.rows[i].timestamp.ms = fetch.resp.rows[i][1]
          /\ t.rows[i].open = fetch.resp.rows[i][2]
          /\ t.rows[i].high = fetch.resp.rows[i][3]
          /\ t.rows[i].low = fetch.resp.rows[i][4]
          /\ t.rows[i].close = fetch.resp.rows[i][5]
          /\ t.rows[i].volume = fetch.resp.rows[i][6]

\* The symbol of the call with every character that is no letter or digit
\* replaced by '_', and the path <output_dir>/<exchange id>_<that>_<timeframe>.csv.
ExpectedSafeSymbol ==
    IF fetch.symbol = <<"B", "/", "U">> THEN <<"B", "_", "U">>
    ELSE <<"E", "_", "U", "_", "U">>
ExpectedPath ==
    <<fetch.output_dir.path, "/", "mock_exchange", "_">> \o ExpectedSafeSymbol
        \o <<"_", fetch.timeframe, ".csv">>

\* The file at the expected path holds the rows of table t under its header.
WrittenAtExpectedPath(t) ==
    \E f \in fs.files :
        /\ f.path = ExpectedPath
        /\ f.content.header = t.columns
        /\ Len(f.content.rows) = Len(t.rows)
        /\ \A i \in 1..Len(t.rows) :
              /\ f.content.rows[i].timestamp.ms = t.rows[i].timestamp.ms
              /\ [f.content.rows[i] EXCEPT !.timestamp = t.rows[i].timestamp] = t.rows[i]

\* C24 as stated: with candles returned the full table comes back; with
\* output_dir None the disk is untouched, and with any other output_dir the
\* table is in the file at the expected path.
C24_Original ==
    FetchedRows =>
        /\ fetch.out.raised = "none"
        /\ FullTable(fetch.out.result)
        /\ fetch.output_dir.isNone => fs = fetch.before
        /\ ~fetch.output_dir.isNone => WrittenAtExpectedPath(fetch.out.result)

\* C24 amended: with output_dir None the full table comes back and the disk
\* is untouched; with any other output_dir either the directory exists, the
\* full table comes back and is in the file at the expected path, or the
\* directory could not be made or the file not written, and then None comes
\* back and no file is written; output_dir '' always ends this second way.
C24_SaveOrNone ==
    FetchedRows =>
        /\ fetch.out.raised = "none"
        /\ fetch.output_dir.isNone =>
               FullTable(fetch.out.result) /\ fs = fetch.before
        /\ ~fetch.output_dir.isNone =>
               \/ /\ fetch.out.at = "saved"
                  /\ FullTable(fetch.out.result)
                  /\ fetch.output_dir.path \in fs.dirs
                  /\ WrittenAtExpectedPath(fetch.out.result)
               \/ /\ fetch.out.at \in {"mkdir_error", "write_error"}
                  /\ fetch.out.result = NoneTable
                  /\ fs.files = fetch.before.files
        /\ (~fetch.output_dir.isNone /\ fetch.output_dir.path = "") =>
               fetch.out.result = NoneTable

\* Candles for a symbol with two special characters were saved under the
\* sanitized name.
C24_Witness ==
    /\ FetchedRows /\ fetch.symbol = <<"E", "/", "U", ":", "U">>
    /\ fetch.output_dir = Dir("data")
    /\ fetch.out.at = "saved"
    /\ WrittenAtExpectedPath(fetch.out.result)

---------------------------------------------------------------------------
(* Properties of load_config.                                              *)

\* The conditions under which None is promised: file missing, EXCHANGE
\* section missing, one of its four options missing, USE_TESTNET no boolean,
\* or one of the three texts empty.
NonePromised ==
    \/ config_file.kind # "ini"
    \/ ~config_file.exchange.present
    \/ Absent \in {config_file.exchange.API_KEY, config_file.exchange.API_SECRET,
                   config_file.exchange.DEFAULT_EXCHANGE_ID,
                   config_file.exchange.USE_TESTNET}
    \/ config_file.exchange.USE_TESTNET \notin {"True", "no"}
    \/ "" \in {config_file.exchange.API_KEY, config_file.exchange.API_SECRET,
               config_file.exchange.DEFAULT_EXCHANGE_ID}

\* The value promised for a logging option: the default when the GENERAL
\* section or the option is absent or blank, else the option's text.
PromisedLogValue(v, default) ==
    IF ~config_file.general.present \/ v \in {Absent, ""} THEN default ELSE v

\* C25: load_config never raises; it returns None under the conditions
\* above and otherwise the map of the four exchange values with LOG_LEVEL
\* and LOG_FILE, defaulted to 'INFO' and 'logs/app.log'.
C25_LoadConfig ==
    cfg.called =>
        /\ cfg.out.raised = "none"
        /\ NonePromised => cfg.out.result = NoneConfig
        /\ ~NonePromised =>
               cfg.out.result =
                   [isNone |-> FALSE,
                    api_key |-> config_file.exchange.API_KEY,
                    api_secret |-> config_file.exchange.API_SECRET,
                    default_exchange_id |-> config_file.exchange.DEFAULT_EXCHANGE_ID,
                    use_testnet |-> config_file.exchange.USE_TESTNET = "True",
                    LOG_LEVEL |-> PromisedLogValue(config_file.general.LOG_LEVEL, "INFO"),
                    LOG_FILE |-> PromisedLogValue(config_file.general.LOG_FILE,
                                                  "logs/app.log")]

====
